---- MODULE Spec2Model ----
(***************************************************************************)
(* Model of app.py: the download handler, the progress stream, the         *)
(* filename sanitizer, the URL validator, the session download counter and *)
(* the start-up sweep of the downloads directory.                          *)
(*                                                                         *)
(* Strings are sequences of one-character strings; URLs are sequences of   *)
(* lexical tokens (scheme, host, path, identifier).                        *)
(***************************************************************************)
EXTENDS Integers, Sequences, FiniteSets, TLC

VARIABLES
    now,      \* time.time(), in seconds
    posix,    \* whether os.rename replaces an existing destination
    files,    \* the entries of DOWNLOAD_DIR
    cookie,   \* the session cookie held by the client: << >> or <<downloads>>
    attempted,\* download jobs of the session that download_handler has run, well or not
    req,      \* the requests of the session and how far each has been served
    reaper,   \* the clean_old_files thread
    san       \* a call of sanitize_filename on its own

vars == <<now, posix, files, cookie, attempted, req, reaper, san>>

(***************************************************************************)
(* Program constants                                                       *)
(***************************************************************************)
MAX_DOWNLOADS_PER_SESSION == 50

ALLOWED_QUALITIES == {"128", "192", "256", "320"}

\* time.time() - 3600 in clean_old_files
MaxAge == 3600

(***************************************************************************)
(* Bounds of the model                                                     *)
(***************************************************************************)
\* The length cap of sanitize_filename (100 in the source), scaled down so
\* that inputs longer than the cap can be enumerated.
MaxNameLen == 8

\* Seconds that pass while the requests are served
MaxTick == 1

\* time.time() when the process starts
StartTime == 7200

(***************************************************************************)
(* sanitize_filename                                                       *)
(***************************************************************************)
Unsafe == {"<", ">", ":", "\"", "/", "\\", "|", "?", "*"}

Whitespace == {" ", "\t", "\n", "\r", "\f"}

Download == <<"d", "o", "w", "n", "l", "o", "a", "d">>

\* re.sub(r'[<>:"/\\|?*]', '', filename)
RemoveUnsafe(s) == SelectSeq(s, LAMBDA c : c \notin Unsafe)

RECURSIVE SkipWhitespace(_)
SkipWhitespace(s) ==
    IF s # << >> /\ Head(s) \in Whitespace THEN SkipWhitespace(Tail(s)) ELSE s

\* re.sub(r'\s+', ' ', filename)
RECURSIVE CollapseWhitespace(_)
CollapseWhitespace(s) ==
    IF s = << >> THEN << >>
    ELSE IF Head(s) \in Whitespace
         THEN <<" ">> \o CollapseWhitespace(SkipWhitespace(s))
         ELSE <<Head(s)>> \o CollapseWhitespace(Tail(s))

RECURSIVE DropTrailingWhitespace(_)
DropTrailingWhitespace(s) ==
    IF s # << >> /\ s[Len(s)] \in Whitespace
    THEN DropTrailingWhitespace(SubSeq(s, 1, Len(s) - 1))
    ELSE s

\* filename.strip()
Strip(s) == DropTrailingWhitespace(SkipWhitespace(s))

\* Truncate that leaves the name at its full length
Truncate_off(s) == s

\* if len(filename) > 100: filename = filename[:100]
Truncate(s) == IF Len(s) > MaxNameLen THEN SubSeq(s, 1, MaxNameLen) ELSE s

sanitize_filename(filename) ==
    LET cut == Truncate(Strip(CollapseWhitespace(RemoveUnsafe(filename))))
    IN  IF cut = << >> THEN Download ELSE cut

(***************************************************************************)
(* is_valid_youtube_url                                                    *)
(***************************************************************************)
Schemes == {"http://", "https://"}

WatchPaths == {"watch?v=", "embed/", "v/"}

\* Tokens whose first character is in [\w-]
WordTokens == {"a", "b", "playlist", "www.", "youtube.com/", "youtu.be/",
               "evil.com/", "http://", "https://", "watch?v=", "embed/", "v/"}

\* ^(https?://)?(www\.)?(youtube\.com/(watch\?v=|embed/|v/)|youtu\.be/)[\w-]+
is_valid_youtube_url(url) ==
    LET At(i) == IF i \in 1..Len(url) THEN url[i] ELSE ""
        i1 == IF At(1) \in Schemes THEN 2 ELSE 1
        i2 == IF At(i1) = "www." THEN i1 + 1 ELSE i1
        i3 == IF At(i2) = "youtube.com/" /\ At(i2 + 1) \in WatchPaths THEN i2 + 2
              ELSE IF At(i2) = "youtu.be/" THEN i2 + 1
              ELSE 0
    IN  i3 # 0 /\ At(i3) \in WordTokens

(***************************************************************************)
(* get_video_info                                                          *)
(***************************************************************************)
\* An exception message: its text and the keywords the handlers look for
\* in it ("unavailable" in error_msg.lower(), ...).
Msg(text, kw) == [text |-> text, kw |-> kw]

InfoUnavailable ==
    Msg("The video is not available or accessible.", {})

InfoCopyright ==
    Msg("The video cannot be downloaded due to copyright restrictions.", {"copyright"})

InfoTimeout ==
    Msg("The connection timed out. Please try again or use a different video URL.", {})

\* re.search(r'[?&]v=([^&]+)', url): the tokens that follow "watch?v=" up to
\* the next "&"
RECURSIVE UpToAmp(_)
UpToAmp(s) ==
    IF s = << >> \/ Head(s) = "&" THEN << >> ELSE <<Head(s)>> \o UpToAmp(Tail(s))

RECURSIVE video_id(_)
video_id(url) ==
    IF url = << >> THEN <<"unknown">>
    ELSE IF Head(url) = "watch?v=" /\ UpToAmp(Tail(url)) # << >>
         THEN UpToAmp(Tail(url))
         ELSE video_id(Tail(url))

\* extracted is what ydl.extract_info does: [ok |-> TRUE, title, duration]
\* or [ok |-> FALSE, err |-> Msg].  The result is either a raised
\* exception or the info dictionary.
get_video_info(url, extracted) ==
    IF extracted.ok
    THEN [raised |-> FALSE, title |-> extracted.title, duration |-> extracted.duration]
    ELSE IF "unavailable" \in extracted.err.kw THEN [raised |-> TRUE, err |-> InfoUnavailable]
    ELSE IF "copyright" \in extracted.err.kw THEN [raised |-> TRUE, err |-> InfoCopyright]
    ELSE IF "timeout" \in extracted.err.kw THEN [raised |-> TRUE, err |-> InfoTimeout]
    ELSE [raised |-> FALSE,
          title |-> <<"YouTube Video ">> \o video_id(url),
          duration |-> ""]

(***************************************************************************)
(* The downloads directory                                                 *)
(***************************************************************************)
\* f"temp_{timestamp}" + "." + ext, and f"{clean_title}.mp3"
TempName(ts, ext) == [kind |-> "temp", ts |-> ts, stem |-> << >>, ext |-> ext]

FinalName(clean_title) == [kind |-> "final", ts |-> 0, stem |-> clean_title, ext |-> "mp3"]

\* filename.startswith(f"temp_{timestamp}")
StartsWithTemp(name, ts) == name.kind = "temp" /\ name.ts = ts

\* A directory entry: its name, modification time, whether it is a regular
\* file, whether its audio is fully produced, and the job that produced it
\* (0: an earlier run of the process).
Entry(name, mtime, regular, complete, by) ==
    [name |-> name, mtime |-> mtime, regular |-> regular, complete |-> complete, by |-> by]

Names(dir) == {f.name : f \in dir}

Lookup(dir, name) == CHOOSE f \in dir : f.name = name

Without(dir, name) == {f \in dir : f.name # name}

Put(dir, f) == Without(dir, f.name) \cup {f}

\* What an earlier run can have left behind: artifacts two hours, one hour
\* and one second, exactly one hour, and ten minutes old, an orphaned temp
\* file and a subdirectory.  Their titles are not titles of this run.
LeftTwoHours == Entry(FinalName(<<"p">>), StartTime - 7200, TRUE, TRUE, 0)

LeftHourAndSecond == Entry(FinalName(<<"q">>), StartTime - MaxAge - 1, TRUE, TRUE, 0)

LeftHour == Entry(FinalName(<<"r">>), StartTime - MaxAge, TRUE, TRUE, 0)

LeftTenMinutes == Entry(FinalName(<<"s">>), StartTime - 600, TRUE, TRUE, 0)

LeftTemp == Entry(TempName(StartTime - 7200, "part"), StartTime - 7200, TRUE, FALSE, 0)

LeftSubdir == Entry(FinalName(<<"t">>), StartTime - 7200, FALSE, TRUE, 0)

LeftBehind == {LeftTwoHours, LeftHourAndSecond, LeftHour, LeftTenMinutes, LeftTemp, LeftSubdir}

(***************************************************************************)
(* Requests and what the external tool answers                             *)
(***************************************************************************)
\* The requests of the session; each is served by a thread of its own.
Requests == {1, 2}

Urls == {<< >>,
         <<"https://", "www.", "youtube.com/", "watch?v=", "a">>,
         <<"https://", "www.", "youtube.com/", "watch?v=">>,
         <<"https://", "evil.com/", "watch?v=", "a">>,
         <<"youtube.com/", "playlist">>}

QualityInputs == {"320", "999"}

ActionInputs == {"getInfo", "download"}

Titles == {<<"a">>, <<"a", "/">>}

\* ydl.extract_info(url, download=False): the info dictionary or an exception
ExtractResults ==
    {[ok |-> TRUE, title |-> t, duration |-> "180"] : t \in Titles}
    \cup {[ok |-> FALSE, err |-> Msg("ERROR: extract_info", kw)] :
             kw \in {{}, {"unavailable"}, {"copyright"}, {"timeout"}, {"unavailable", "copyright"}}}

\* The exceptions ydl.download([url]) raises
DownloadErrors ==
    {Msg("ERROR: download", kw) : kw \in {{}, {"timeout"}}}

FileNotFoundError == Msg("[Errno 2] No such file or directory", {})

FileExistsError == Msg("[WinError 183] Cannot create a file when that file already exists", {})

NotFound == Msg("Download failed: File not found", {})

\* The except clause of download_video: the exception it raises for e
download_video_error(e) ==
    IF "unavailable" \in e.kw THEN InfoUnavailable
    ELSE IF "copyright" \in e.kw THEN InfoCopyright
    ELSE IF "timeout" \in e.kw
         THEN Msg("The download timed out. Please try again or use a different video URL.", {})
    ELSE Msg("Download failed: " \o e.text, e.kw)

NoName == [kind |-> "none", ts |-> 0, stem |-> << >>, ext |-> ""]

NoResp == [status |-> 0, success |-> FALSE, error |-> "", title |-> << >>,
           duration |-> "", filename |-> << >>]

\* What get_video_info answered, kept for the record
NotResolved == [called |-> FALSE, raised |-> FALSE, title |-> << >>, duration |-> ""]

\* A request: its parameters, the session as loaded and as the handler
\* leaves it, the local variables of the job, and what went out.  before
\* is the number of download jobs run in the session when it came in, met
\* the requests being served at that moment; calls are the external calls
\* made for it.
Fresh == [pc |-> "new", entry |-> "", url |-> << >>, quality |-> "",
          action |-> "", before |-> 0, loaded |-> << >>, sess |-> << >>,
          modified |-> FALSE, title |-> << >>, duration |-> "", timestamp |-> 0,
          found |-> NoName, calls |-> {}, resolved |-> NotResolved,
          met |-> {}, events |-> << >>, resp |-> NoResp]

\* session['downloads'], 0 where the session has none
Count(sess) == IF sess = << >> THEN 0 ELSE sess[1]

ErrorResp(text) == [NoResp EXCEPT !.status = 400, !.error = text]

\* The response leaves: the session is written to the cookie when the
\* handler assigned to it.
SaveSession(r) == IF r.modified THEN r.sess ELSE cookie

\* The handler or the generator returns: its local variables are gone.
Return(r) == [r EXCEPT !.pc = "done", !.title = << >>, !.duration = "",
                       !.timestamp = 0, !.found = NoName]

\* get_video_info has been called and has answered info.
Resolved(r, info) ==
    [r EXCEPT !.calls = @ \cup {"info"},
              !.resolved = IF info.raised
                           THEN [NotResolved EXCEPT !.called = TRUE, !.raised = TRUE]
                           ELSE [called |-> TRUE, raised |-> FALSE,
                                 title |-> info.title, duration |-> info.duration]]

\* jsonify({'success': False, 'error': ...}), 400
Reject(r, text) == [Return(r) EXCEPT !.resp = ErrorResp(text)]

\* The requests being served
InFlight == {q \in Requests : req[q].pc \notin {"new", "done"}}

(***************************************************************************)
(* download_handler                                                        *)
(***************************************************************************)
LimitReached == "Download limit reached for this session"

\* download_handler comparing the counter with > where the source has >=
download_handler_past_limit(r, url, quality, action) ==
    LET got == [r EXCEPT !.entry = "sync", !.url = url,
                         !.quality = quality, !.action = action,
                         !.before = attempted, !.met = InFlight,
                         !.loaded = cookie, !.sess = cookie]
        opened == IF got.sess = << >>
                  THEN [got EXCEPT !.sess = <<0>>, !.modified = TRUE]
                  ELSE got
    IN  IF url = << >> THEN Reject(got, "URL is required")
        ELSE IF quality \notin ALLOWED_QUALITIES THEN Reject(got, "Invalid quality selection")
        ELSE IF ~is_valid_youtube_url(url) THEN Reject(got, "Invalid YouTube URL")
        ELSE IF opened.sess[1] > MAX_DOWNLOADS_PER_SESSION
             THEN Reject(opened, LimitReached)
        ELSE IF action = "getInfo" THEN [opened EXCEPT !.pc = "info"]
        ELSE [opened EXCEPT !.pc = "info", !.timestamp = now]

\* download_handler holding a place in the quota for every download job
\* that is still running
download_handler_reserving(r, url, quality, action) ==
    LET got == [r EXCEPT !.entry = "sync", !.url = url,
                         !.quality = quality, !.action = action,
                         !.before = attempted, !.met = InFlight,
                         !.loaded = cookie, !.sess = cookie]
        opened == IF got.sess = << >>
                  THEN [got EXCEPT !.sess = <<0>>, !.modified = TRUE]
                  ELSE got
        running == {q \in InFlight : req[q].entry = "sync" /\ req[q].action # "getInfo"}
    IN  IF url = << >> THEN Reject(got, "URL is required")
        ELSE IF quality \notin ALLOWED_QUALITIES THEN Reject(got, "Invalid quality selection")
        ELSE IF ~is_valid_youtube_url(url) THEN Reject(got, "Invalid YouTube URL")
        ELSE IF opened.sess[1] + Cardinality(running) >= MAX_DOWNLOADS_PER_SESSION
             THEN Reject(opened, LimitReached)
        ELSE IF action = "getInfo" THEN [opened EXCEPT !.pc = "info"]
        ELSE [opened EXCEPT !.pc = "info", !.timestamp = now]

\* The checks of download_handler, up to the session limit, and the start
\* of the job: download_video reads the clock first.
download_handler(r, url, quality, action) ==
    LET got == [r EXCEPT !.entry = "sync", !.url = url,
                         !.quality = quality, !.action = action,
                         !.before = attempted, !.met = InFlight,
                         !.loaded = cookie, !.sess = cookie]
        \* if 'downloads' not in session: session['downloads'] = 0
        opened == IF got.sess = << >>
                  THEN [got EXCEPT !.sess = <<0>>, !.modified = TRUE]
                  ELSE got
    IN  IF url = << >> THEN Reject(got, "URL is required")
        ELSE IF quality \notin ALLOWED_QUALITIES THEN Reject(got, "Invalid quality selection")
        ELSE IF ~is_valid_youtube_url(url) THEN Reject(got, "Invalid YouTube URL")
        ELSE IF opened.sess[1] >= MAX_DOWNLOADS_PER_SESSION
             THEN Reject(opened, LimitReached)
        ELSE IF action = "getInfo" THEN [opened EXCEPT !.pc = "info"]
        ELSE [opened EXCEPT !.pc = "info", !.timestamp = now]

Post(w) ==
    /\ req[w].pc = "new"
    /\ \E url \in Urls, quality \in QualityInputs, action \in ActionInputs :
          LET r == download_handler(req[w], url, quality, action)
          IN  /\ req' = [req EXCEPT ![w] = r]
              /\ cookie' = IF r.pc = "done" THEN SaveSession(r) ELSE cookie
    /\ UNCHANGED <<now, posix, files, attempted, reaper, san>>

\* GetInfo incrementing the session counter as the download branch does
GetInfo_counted(w) ==
    /\ req[w].pc = "info" /\ req[w].entry = "sync" /\ req[w].action = "getInfo"
    /\ \E x \in ExtractResults :
          LET info == get_video_info(req[w].url, x)
              called == Return(Resolved(req[w], info))
              r == IF info.raised
                   THEN [called EXCEPT !.resp = ErrorResp(info.err.text)]
                   ELSE [called EXCEPT !.sess = <<Count(@) + 1>>, !.modified = TRUE,
                                       !.resp = [NoResp EXCEPT !.status = 200,
                                                   !.success = TRUE,
                                                   !.title = info.title,
                                                   !.duration = info.duration]]
          IN  /\ req' = [req EXCEPT ![w] = r]
              /\ cookie' = SaveSession(r)
    /\ UNCHANGED <<now, posix, files, attempted, reaper, san>>

\* action == 'getInfo': get_video_info, then the response
GetInfo(w) ==
    /\ req[w].pc = "info" /\ req[w].entry = "sync" /\ req[w].action = "getInfo"
    /\ \E x \in ExtractResults :
          LET info == get_video_info(req[w].url, x)
              called == Return(Resolved(req[w], info))
              r == IF info.raised
                   THEN [called EXCEPT !.resp = ErrorResp(info.err.text)]
                   ELSE [called EXCEPT !.resp = [NoResp EXCEPT !.status = 200,
                                                   !.success = TRUE,
                                                   !.title = info.title,
                                                   !.duration = info.duration]]
          IN  /\ req' = [req EXCEPT ![w] = r]
              /\ cookie' = SaveSession(r)
    /\ UNCHANGED <<now, posix, files, attempted, reaper, san>>

\* Failed counting the failed job in the session as a finished one is counted
Failed_counted(r, e) ==
    [Reject(r, download_video_error(e).text) EXCEPT
        !.sess = <<Count(@) + 1>>, !.modified = TRUE]

\* The job failed: download_video raises, download_handler answers 400
\* and leaves the counter alone.
Failed(r, e) == Reject(r, download_video_error(e).text)

\* SyncInfo going on to the download under the fallback title when
\* get_video_info raises
SyncInfo_goes_on(w) ==
    /\ req[w].pc = "info" /\ req[w].entry = "sync" /\ req[w].action # "getInfo"
    /\ \E x \in ExtractResults :
          LET info == get_video_info(req[w].url, x)
              called == Resolved(req[w], info)
              r == IF info.raised
                   THEN [called EXCEPT !.pc = "download",
                                       !.title = <<"YouTube Video ">> \o video_id(req[w].url)]
                   ELSE [called EXCEPT !.pc = "download", !.title = info.title,
                                       !.duration = info.duration]
          IN  /\ req' = [req EXCEPT ![w] = r]
              /\ cookie' = cookie
    /\ attempted' = attempted
    /\ UNCHANGED <<now, posix, files, reaper, san>>

\* info = get_video_info(url) in download_video
SyncInfo(w) ==
    /\ req[w].pc = "info" /\ req[w].entry = "sync" /\ req[w].action # "getInfo"
    /\ \E x \in ExtractResults :
          LET info == get_video_info(req[w].url, x)
              called == Resolved(req[w], info)
              r == IF info.raised
                   THEN Failed(called, info.err)
                   ELSE [called EXCEPT !.pc = "download", !.title = info.title,
                                       !.duration = info.duration]
          IN  /\ req' = [req EXCEPT ![w] = r]
              /\ cookie' = IF r.pc = "done" THEN SaveSession(r) ELSE cookie
    /\ attempted' = IF req'[w].pc = "done" THEN attempted + 1 ELSE attempted
    /\ UNCHANGED <<now, posix, files, reaper, san>>

(***************************************************************************)
(* The external download and the directory calls of a job                  *)
(***************************************************************************)
\* ydl.download([url]) writes the media under the temp prefix and then
\* leaves the transcoded file temp_<timestamp>.mp3 in its place.
ydl_begin(dir, ts, id) == Put(dir, Entry(TempName(ts, "part"), now, TRUE, FALSE, id))

ydl_end(dir, ts, id) ==
    Put(Without(dir, TempName(ts, "part")), Entry(TempName(ts, "mp3"), now, TRUE, TRUE, id))

\* Located matching "temp_" alone, without the timestamp
Located_any(dir, ts) == {n \in Names(dir) : n.kind = "temp"}

\* for filename in os.listdir(DOWNLOAD_DIR): if filename.startswith(...): break
\* The listing has no fixed order: any matching name can be the first.
Located(dir, ts) == {n \in Names(dir) : StartsWithTemp(n, ts)}

\* os.path.getsize(downloaded_file); os.rename(downloaded_file, new_path):
\* the exceptions they can raise
RenameErrors(dir, src, dst) ==
    IF src \notin Names(dir) THEN {FileNotFoundError}
    ELSE IF ~posix /\ dst # src /\ dst \in Names(dir) THEN {FileExistsError}
    ELSE {}

\* os_rename that removes the source and creates nothing
os_rename_lost(dir, src, dst) == Without(dir, src)

\* os_rename that copies: the source stays where it was
os_rename_copy(dir, src, dst) == Put(dir, [Lookup(dir, src) EXCEPT !.name = dst])

os_rename(dir, src, dst) ==
    Put(Without(dir, src), [Lookup(dir, src) EXCEPT !.name = dst])

\* new_filename = f"{clean_title}.mp3"
new_path(title) == FinalName(sanitize_filename(title))

(***************************************************************************)
(* download_video                                                          *)
(***************************************************************************)
SyncDownloadStart(w) ==
    /\ req[w].pc = "download" /\ req[w].entry = "sync"
    /\ files' = ydl_begin(files, req[w].timestamp, w)
    /\ req' = [req EXCEPT ![w] = [@ EXCEPT !.pc = "downloading", !.calls = @ \cup {"download"}]]
    /\ UNCHANGED <<now, posix, cookie, attempted, reaper, san>>

SyncDownloadEnd(w) ==
    /\ req[w].pc = "downloading" /\ req[w].entry = "sync"
    /\ files' = ydl_end(files, req[w].timestamp, w)
    /\ req' = [req EXCEPT ![w] = [@ EXCEPT !.pc = "scan"]]
    /\ UNCHANGED <<now, posix, cookie, attempted, reaper, san>>

SyncDownloadFails(w) ==
    /\ req[w].pc \in {"download", "downloading"} /\ req[w].entry = "sync"
    /\ \E e \in DownloadErrors :
          LET r == Failed([req[w] EXCEPT !.calls = @ \cup {"download"}], e)
          IN  /\ req' = [req EXCEPT ![w] = r]
              /\ cookie' = SaveSession(r)
    /\ attempted' = attempted + 1
    /\ UNCHANGED <<now, posix, files, reaper, san>>

SyncLocate(w) ==
    /\ req[w].pc = "scan" /\ req[w].entry = "sync"
    /\ IF Located(files, req[w].timestamp) = {}
       THEN LET r == Failed(req[w], NotFound)
            IN  /\ req' = [req EXCEPT ![w] = r]
                /\ cookie' = SaveSession(r)
       ELSE /\ \E n \in Located(files, req[w].timestamp) :
                  req' = [req EXCEPT ![w] = [@ EXCEPT !.pc = "rename", !.found = n]]
            /\ cookie' = cookie
    /\ attempted' = IF req'[w].pc = "done" THEN attempted + 1 ELSE attempted
    /\ UNCHANGED <<now, posix, files, reaper, san>>

\* The rename, the result of download_video, and in download_handler the
\* counter and the response
SyncRename(w) ==
    /\ req[w].pc = "rename" /\ req[w].entry = "sync"
    /\ LET dst == new_path(req[w].title)
           errs == RenameErrors(files, req[w].found, dst)
       IN  IF errs # {}
           THEN /\ \E e \in errs :
                      LET r == Failed(req[w], e)
                      IN  /\ req' = [req EXCEPT ![w] = r]
                          /\ cookie' = SaveSession(r)
                /\ files' = files
           ELSE LET r == [Return(req[w]) EXCEPT
                            !.sess = <<Count(@) + 1>>,
                            !.modified = TRUE,
                            !.resp = [NoResp EXCEPT !.status = 200, !.success = TRUE,
                                                    !.title = req[w].title,
                                                    !.filename = dst.stem \o <<".mp3">>]]
                IN  /\ files' = os_rename(files, req[w].found, dst)
                    /\ req' = [req EXCEPT ![w] = r]
                    /\ cookie' = SaveSession(r)
    /\ attempted' = attempted + 1
    /\ UNCHANGED <<now, posix, reaper, san>>

(***************************************************************************)
(* download_progress_handler and progress_stream                           *)
(***************************************************************************)
Event(progress) == [progress |-> progress, error |-> "", filename |-> << >>, title |-> << >>]

Emit(r, progress) == [r EXCEPT !.events = Append(@, Event(progress))]

\* EmitError that ends the stream without the error event
EmitError_silent(r, text) == Return(r)

\* The event {'error': ..., 'progress': -1}, after which the generator returns
EmitError(r, text) ==
    [Return(r) EXCEPT !.events = Append(@, [Event(-1) EXCEPT !.error = text])]

\* download_progress_handler without the is_valid_youtube_url check
download_progress_handler_unchecked(r, url, quality) ==
    LET got == [r EXCEPT !.entry = "stream", !.url = url,
                         !.quality = quality, !.before = attempted, !.met = InFlight,
                         !.loaded = cookie, !.sess = cookie]
    IN  IF url = << >> THEN [Return(got) EXCEPT
                               !.events = Append(@, [Event(-1) EXCEPT !.error = "URL is required"])]
        ELSE [Emit(Emit(got, 0), 10) EXCEPT !.pc = "info"]

download_progress_handler(r, url, quality) ==
    LET got == [r EXCEPT !.entry = "stream", !.url = url,
                         !.quality = quality, !.before = attempted, !.met = InFlight,
                         !.loaded = cookie, !.sess = cookie]
    IN  IF url = << >> THEN EmitError(got, "URL is required")
        ELSE IF ~is_valid_youtube_url(url) THEN EmitError(got, "Invalid YouTube URL")
        ELSE [Emit(Emit(got, 0), 10) EXCEPT !.pc = "info"]

Get(w) ==
    /\ req[w].pc = "new"
    /\ \E url \in Urls, quality \in QualityInputs :
          req' = [req EXCEPT ![w] = download_progress_handler(req[w], url, quality)]
    /\ UNCHANGED <<now, posix, files, cookie, attempted, reaper, san>>

StreamInfo(w) ==
    /\ req[w].pc = "info" /\ req[w].entry = "stream"
    /\ \E x \in ExtractResults :
          LET info == get_video_info(req[w].url, x)
              called == Resolved(req[w], info)
          IN  req' = [req EXCEPT ![w] =
                        IF info.raised
                        THEN EmitError(called, info.err.text)
                        ELSE [Emit(Emit(called, 25), 40) EXCEPT
                                !.pc = "download", !.title = info.title,
                                !.duration = info.duration, !.timestamp = now]]
    /\ UNCHANGED <<now, posix, files, cookie, attempted, reaper, san>>

StreamDownloadStart(w) ==
    /\ req[w].pc = "download" /\ req[w].entry = "stream"
    /\ files' = ydl_begin(files, req[w].timestamp, w)
    /\ req' = [req EXCEPT ![w] = [@ EXCEPT !.pc = "downloading", !.calls = @ \cup {"download"}]]
    /\ UNCHANGED <<now, posix, cookie, attempted, reaper, san>>

\* StreamDownloadEnd without the progress 80 event
StreamDownloadEnd_silent(w) ==
    /\ req[w].pc = "downloading" /\ req[w].entry = "stream"
    /\ files' = ydl_end(files, req[w].timestamp, w)
    /\ req' = [req EXCEPT ![w] = [@ EXCEPT !.pc = "scan"]]
    /\ UNCHANGED <<now, posix, cookie, attempted, reaper, san>>

StreamDownloadEnd(w) ==
    /\ req[w].pc = "downloading" /\ req[w].entry = "stream"
    /\ files' = ydl_end(files, req[w].timestamp, w)
    /\ req' = [req EXCEPT ![w] = [Emit(@, 80) EXCEPT !.pc = "scan"]]
    /\ UNCHANGED <<now, posix, cookie, attempted, reaper, san>>

\* except Exception as e: the error event with str(e)
StreamDownloadFails(w) ==
    /\ req[w].pc \in {"download", "downloading"} /\ req[w].entry = "stream"
    /\ \E e \in DownloadErrors :
          req' = [req EXCEPT ![w] = EmitError([@ EXCEPT !.calls = @ \cup {"download"}], e.text)]
    /\ UNCHANGED <<now, posix, files, cookie, attempted, reaper, san>>

StreamLocate(w) ==
    /\ req[w].pc = "scan" /\ req[w].entry = "stream"
    /\ IF Located(files, req[w].timestamp) = {}
       THEN req' = [req EXCEPT ![w] = EmitError(@, NotFound.text)]
       ELSE \E n \in Located(files, req[w].timestamp) :
              req' = [req EXCEPT ![w] = [Emit(@, 90) EXCEPT !.pc = "rename", !.found = n]]
    /\ UNCHANGED <<now, posix, files, cookie, attempted, reaper, san>>

StreamRename(w) ==
    /\ req[w].pc = "rename" /\ req[w].entry = "stream"
    /\ LET dst == new_path(req[w].title)
           errs == RenameErrors(files, req[w].found, dst)
       IN  IF errs # {}
           THEN /\ \E e \in errs : req' = [req EXCEPT ![w] = EmitError(@, e.text)]
                /\ files' = files
           ELSE /\ files' = os_rename(files, req[w].found, dst)
                /\ req' = [req EXCEPT ![w] = [Emit(@, 95) EXCEPT !.pc = "final"]]
    /\ UNCHANGED <<now, posix, cookie, attempted, reaper, san>>

\* The completion event, with the result as its data
StreamComplete(w) ==
    /\ req[w].pc = "final" /\ req[w].entry = "stream"
    /\ req' = [req EXCEPT ![w] =
                 [Return(@) EXCEPT
                           !.events = Append(@, [Event(100) EXCEPT
                               !.filename = new_path(req[w].title).stem \o <<".mp3">>,
                               !.title = req[w].title])]]
    /\ UNCHANGED <<now, posix, files, cookie, attempted, reaper, san>>

\* A second passes.
Tick ==
    /\ now < StartTime + MaxTick
    /\ now' = now + 1
    /\ UNCHANGED <<posix, files, cookie, attempted, req, reaper, san>>

(***************************************************************************)
(* clean_old_files, run once in a thread started with the process          *)
(***************************************************************************)
ReaperIdle == [pc |-> "start", one_hour_ago |-> 0, listed |-> {}, listing |-> {},
               cur |-> NoName, removed |-> {}]

\* one_hour_ago = time.time() - 3600; os.listdir(DOWNLOAD_DIR)
ReaperStart ==
    /\ reaper.pc = "start"
    /\ reaper' = [reaper EXCEPT !.pc = "next", !.one_hour_ago = now - MaxAge,
                                 !.listed = files, !.listing = Names(files)]
    /\ UNCHANGED <<now, posix, files, cookie, attempted, req, san>>

\* The next filename of the listing and os.path.isfile(filepath)
ReaperIsFile ==
    /\ reaper.pc = "next"
    /\ \E n \in reaper.listing :
          reaper' = [reaper EXCEPT
                       !.listing = @ \ {n},
                       !.cur = n,
                       !.pc = IF n \in Names(files) /\ Lookup(files, n).regular
                              THEN "mtime" ELSE "next"]
    /\ UNCHANGED <<now, posix, files, cookie, attempted, req, san>>

\* ReaperGetMtime comparing with <= where the source has <
ReaperGetMtime_inclusive ==
    /\ reaper.pc = "mtime"
    /\ reaper' = [reaper EXCEPT !.pc =
                     IF reaper.cur \notin Names(files) THEN "failed"
                     ELSE IF Lookup(files, reaper.cur).mtime <= reaper.one_hour_ago THEN "remove"
                     ELSE "next"]
    /\ UNCHANGED <<now, posix, files, cookie, attempted, req, san>>

\* os.path.getmtime(filepath) < one_hour_ago; a file that is gone raises,
\* and the except clause around the loop ends the sweep.
ReaperGetMtime ==
    /\ reaper.pc = "mtime"
    /\ reaper' = [reaper EXCEPT !.pc =
                     IF reaper.cur \notin Names(files) THEN "failed"
                     ELSE IF Lookup(files, reaper.cur).mtime < reaper.one_hour_ago THEN "remove"
                     ELSE "next"]
    /\ UNCHANGED <<now, posix, files, cookie, attempted, req, san>>

\* os.remove(filepath)
ReaperRemove ==
    /\ reaper.pc = "remove"
    /\ IF reaper.cur \notin Names(files)
       THEN /\ reaper' = [reaper EXCEPT !.pc = "failed"]
            /\ files' = files
       ELSE /\ reaper' = [reaper EXCEPT !.pc = "next",
                                         !.removed = @ \cup {Lookup(files, reaper.cur)}]
            /\ files' = Without(files, reaper.cur)
    /\ UNCHANGED <<now, posix, cookie, attempted, req, san>>

\* The listing is exhausted: the thread ends.
ReaperEnd ==
    /\ reaper.pc = "next"
    /\ reaper.listing = {}
    /\ reaper' = [reaper EXCEPT !.pc = "done", !.cur = NoName]
    /\ UNCHANGED <<now, posix, files, cookie, attempted, req, san>>

clean_old_files == ReaperStart \/ ReaperIsFile \/ ReaperGetMtime \/ ReaperRemove \/ ReaperEnd

(***************************************************************************)
(* sanitize_filename called on its own, and on its own result              *)
(***************************************************************************)
SanAlphabet == {"a", " ", "/"}

SanInputs == UNION {[1..n -> SanAlphabet] : n \in 0..(MaxNameLen + 1)}

SanOff == [pc |-> "off", arg |-> << >>, once |-> << >>, twice |-> << >>]

SanitizeOnce ==
    /\ san.pc = "input"
    /\ san' = [san EXCEPT !.pc = "once", !.once = sanitize_filename(san.arg)]
    /\ UNCHANGED <<now, posix, files, cookie, attempted, req, reaper>>

SanitizeTwice ==
    /\ san.pc = "once"
    /\ san' = [san EXCEPT !.pc = "twice", !.twice = sanitize_filename(san.once)]
    /\ UNCHANGED <<now, posix, files, cookie, attempted, req, reaper>>

(***************************************************************************)
(* Specifications                                                          *)
(***************************************************************************)
\* The service: the session is new or one download short of its limit,
\* and the directory is empty.
Init ==
    /\ now = StartTime
    /\ posix \in BOOLEAN
    /\ files = {}
    /\ cookie \in {<< >>, <<MAX_DOWNLOADS_PER_SESSION - 1>>}
    /\ attempted = Count(cookie)
    /\ req = [w \in Requests |-> Fresh]
    /\ reaper = ReaperIdle
    /\ san = SanOff

Serve(w) ==
    \/ Post(w) \/ GetInfo(w) \/ SyncInfo(w)
    \/ SyncDownloadStart(w) \/ SyncDownloadEnd(w) \/ SyncDownloadFails(w)
    \/ SyncLocate(w) \/ SyncRename(w)
    \/ Get(w) \/ StreamInfo(w)
    \/ StreamDownloadStart(w) \/ StreamDownloadEnd(w) \/ StreamDownloadFails(w)
    \/ StreamLocate(w) \/ StreamRename(w) \/ StreamComplete(w)

Next == (\E w \in Requests : Serve(w)) \/ Tick

Spec == Init /\ [][Next]_vars

\* The sweep alone, over every directory an earlier run can have left
InitSweep ==
    /\ now = StartTime
    /\ posix \in BOOLEAN
    /\ files \in SUBSET LeftBehind
    /\ cookie = << >>
    /\ attempted = 0
    /\ req = [w \in Requests |-> Fresh]
    /\ reaper = ReaperIdle
    /\ san = SanOff

SpecSweep == InitSweep /\ [][clean_old_files]_vars

\* More than the age limit passes at once.
AnHourLater ==
    /\ now <= StartTime + MaxTick
    /\ now' = now + MaxAge + 1
    /\ UNCHANGED <<posix, files, cookie, attempted, req, reaper, san>>

\* The process from its start: the sweep thread beside one request, over a
\* directory that is empty or holds two artifacts of an earlier run.  The
\* thread and the handlers run on once started.
InitProcess ==
    /\ now = StartTime
    /\ posix \in BOOLEAN
    /\ files \in {{}, {LeftTwoHours, LeftTenMinutes}}
    /\ cookie = << >>
    /\ attempted = 0
    /\ req = [w \in Requests |-> Fresh]
    /\ reaper = ReaperIdle
    /\ san = SanOff

NextProcess == Serve(1) \/ clean_old_files \/ AnHourLater

SpecProcess == InitProcess /\ [][NextProcess]_vars /\ WF_vars(NextProcess)

\* The sanitizer alone, over every input of SanInputs
InitSanitize ==
    /\ now = StartTime
    /\ posix = TRUE
    /\ files = {}
    /\ cookie = << >>
    /\ attempted = 0
    /\ req = [w \in Requests |-> Fresh]
    /\ reaper = ReaperIdle
    /\ san \in {[SanOff EXCEPT !.pc = "input", !.arg = x] : x \in SanInputs}

NextSanitize == SanitizeOnce \/ SanitizeTwice

SpecSanitize == InitSanitize /\ [][NextSanitize]_vars

(***************************************************************************)
(* Properties                                                              *)
(***************************************************************************)
\* The request has come in and its parameters pass the checks made before
\* the session is looked at.
Served(r) == req[r].pc # "new"

ValidInput(r) ==
    /\ req[r].url # << >>
    /\ req[r].quality \in ALLOWED_QUALITIES
    /\ is_valid_youtube_url(req[r].url)

Progress(events) == [i \in 1..Len(events) |-> events[i].progress]

Last(events) == events[Len(events)]

Milestones == <<0, 10, 25, 40, 80, 90, 95, 100>>

StreamSucceeded(r) ==
    req[r].entry = "stream" /\ req[r].events # << >> /\ Last(req[r].events).progress = 100

SyncSucceeded(r) ==
    req[r].entry = "sync" /\ req[r].resp.success /\ req[r].resp.filename # << >>

\* The filename a job reports in its result
Reported(r) ==
    IF req[r].entry = "stream" THEN Last(req[r].events).filename ELSE req[r].resp.filename

NoFileOf(r) == \A f \in files : f.by # r

\* C1: a request whose URL is_valid_youtube_url rejects ends at once with an
\* error (status 400 from download_handler, the single event with progress -1
\* from the stream); get_video_info and the downloader are never called for
\* it, it creates no file, and it leaves the session as it loaded it.
C1_InvalidUrlRejected ==
    \A r \in Requests :
        (Served(r) /\ ~is_valid_youtube_url(req[r].url)) =>
            /\ req[r].pc = "done"
            /\ req[r].calls = {}
            /\ ~req[r].resolved.called
            /\ NoFileOf(r)
            /\ ~req[r].modified
            /\ req[r].sess = req[r].loaded
            /\ req[r].entry = "sync" =>
                  /\ req[r].resp.status = 400
                  /\ ~req[r].resp.success
                  /\ req[r].resp.error # ""
            /\ req[r].entry = "stream" =>
                  /\ Progress(req[r].events) = <<-1>>
                  /\ req[r].events[1].error # ""

C1_Witness ==
    /\ req[1].entry = "sync" /\ req[1].pc = "done"
    /\ req[1].url # << >> /\ ~is_valid_youtube_url(req[1].url)
    /\ req[1].quality \in ALLOWED_QUALITIES
    /\ req[2].entry = "stream" /\ req[2].pc = "done"
    /\ req[2].url # << >> /\ ~is_valid_youtube_url(req[2].url)

\* C2: a request whose quality is outside ALLOWED_QUALITIES is rejected at
\* either entry point before get_video_info or the downloader is called.
C2_QualityRejected ==
    \A r \in Requests :
        (Served(r) /\ req[r].quality \notin ALLOWED_QUALITIES) => req[r].calls = {}

IsPrefix(p, q) == Len(p) <= Len(q) /\ p = SubSeq(q, 1, Len(p))

C4_Milestones ==
    \A r \in Requests :
        req[r].entry = "stream" =>
            LET p == Progress(req[r].events)
            IN  /\ StreamSucceeded(r) => p = Milestones
                /\ \/ IsPrefix(p, Milestones)
                   \/ /\ p # << >>
                      /\ p[Len(p)] = -1
                      /\ IsPrefix(SubSeq(p, 1, Len(p) - 1), Milestones)
                /\ (\E i \in 1..Len(p) : p[i] = 100) => req[r].pc = "done"

C4_Witness ==
    \E r \in Requests : req[r].pc = "done" /\ Progress(req[r].events) = Milestones

\* C5: the progress 100 event carries the filename
\* sanitize_filename(title) + ".mp3" for the title resolved for its job,
\* and a file of that name is in the directory when it is emitted.
C5_CompletionPayload ==
    \A r \in Requests :
        StreamSucceeded(r) =>
            LET e == Last(req[r].events)
            IN  /\ req[r].resolved.called /\ ~req[r].resolved.raised
                /\ e.title = req[r].resolved.title
                /\ e.filename = sanitize_filename(req[r].resolved.title) \o <<".mp3">>
                /\ FinalName(sanitize_filename(req[r].resolved.title)) \in Names(files)

C5_Witness ==
    \E r \in Requests :
        /\ StreamSucceeded(r)
        /\ req[r].resolved.title = <<"a", "/">>
        /\ Last(req[r].events).filename = <<"a", ".mp3">>

\* C6: a stream that ends without the progress 100 event has emitted
\* exactly one event with progress -1, with a non-empty error, as its last
\* event; no stream holds both a -1 and a 100 event, and nothing follows -1.
C6_SingleErrorEvent ==
    \A r \in Requests :
        req[r].entry = "stream" =>
            LET p == Progress(req[r].events)
                errors == {i \in 1..Len(p) : p[i] = -1}
            IN  /\ Cardinality(errors) <= 1
                /\ \A i \in errors :
                      /\ i = Len(p)
                      /\ req[r].events[i].error # ""
                      /\ req[r].pc = "done"
                      /\ \A j \in 1..Len(p) : p[j] # 100
                /\ (req[r].pc = "done" /\ ~StreamSucceeded(r)) => errors # {}

C6_Witness ==
    \E r \in Requests :
        /\ req[r].pc = "done"
        /\ Progress(req[r].events) = <<0, 10, 25, 40, 80, 90, -1>>

\* C7: two jobs served at the same time never both report success for the
\* same final path.
Concurrent(r, q) == q \in req[r].met \/ r \in req[q].met

C7_NoOverwrite ==
    \A r, q \in Requests :
        (r # q /\ Concurrent(r, q)
               /\ (StreamSucceeded(r) \/ SyncSucceeded(r))
               /\ (StreamSucceeded(q) \/ SyncSucceeded(q))) =>
            Reported(r) # Reported(q)

\* C8: when the sweep has gone through its listing, the directory holds the
\* entries it listed less the regular files last modified more than 3600
\* seconds before the sweep, and those are the files it removed.
C8_SweepRemovesStale ==
    reaper.pc = "done" =>
        LET stale == {f \in reaper.listed : f.regular /\ f.mtime < now - 3600}
        IN  /\ files = reaper.listed \ stale
            /\ reaper.removed = stale

C8_Witness ==
    /\ reaper.pc = "done"
    /\ {LeftTwoHours, LeftTenMinutes, LeftHour, LeftSubdir} \subseteq reaper.listed
    /\ LeftTwoHours \notin files
    /\ LeftTenMinutes \in files

\* C9: a getInfo request that passes validation and the limit check never
\* has the downloader called, creates no file and leaves the counter at
\* the value it loaded; when get_video_info returns, the response is
\* success with the title and the duration it returned.
C9_GetInfoFrame ==
    \A r \in Requests :
        (Served(r) /\ req[r].entry = "sync" /\ req[r].action = "getInfo"
           /\ ValidInput(r) /\ Count(req[r].loaded) < MAX_DOWNLOADS_PER_SESSION) =>
            /\ "download" \notin req[r].calls
            /\ NoFileOf(r)
            /\ Count(req[r].sess) = Count(req[r].loaded)
            /\ req[r].pc = "done" =>
                  /\ req[r].resolved.called
                  /\ ~req[r].resolved.raised =>
                        /\ req[r].resp.status = 200
                        /\ req[r].resp.success
                        /\ req[r].resp.title = req[r].resolved.title
                        /\ req[r].resp.duration = req[r].resolved.duration
                  /\ req[r].resolved.raised =>
                        /\ req[r].resp.status = 400
                        /\ ~req[r].resp.success

C9_Witness ==
    \E r \in Requests :
        /\ req[r].pc = "done" /\ req[r].entry = "sync" /\ req[r].action = "getInfo"
        /\ req[r].resp.success
        /\ req[r].resp.title = <<"a">>
        /\ req[r].resp.duration = "180"
        /\ files # {}

\* C10: sanitize_filename applied to its own result returns it unchanged.
C10_Idempotent == san.pc = "twice" => san.twice = san.once

\* C11: the result of sanitize_filename is at most MaxNameLen long (the cap
\* of 100, scaled), is never empty, holds none of the characters of Unsafe,
\* and is "download" for an input made of unsafe characters and whitespace
\* only.
C11_SanitizedBounds ==
    san.pc # "off" /\ san.pc # "input" =>
        /\ Len(san.once) <= MaxNameLen
        /\ san.once # << >>
        /\ \A i \in 1..Len(san.once) : san.once[i] \notin Unsafe
        /\ (\A i \in 1..Len(san.arg) : san.arg[i] \in Unsafe \cup Whitespace) =>
               san.once = Download

C11_Witness ==
    /\ san.pc = "once"
    /\ Len(san.arg) > MaxNameLen
    /\ \E i \in 1..Len(san.arg) : san.arg[i] \in Unsafe
    /\ \E i \in 1..Len(san.arg) : san.arg[i] \in Whitespace
    /\ Len(san.once) = MaxNameLen - 1

\* C12: every file under a final name is fully produced; a file whose
\* download has not completed is only ever under a temp name.
C12_FinalIsComplete ==
    \A f \in files : f.name.kind = "final" => f.complete

\* C13: a request at either entry point that comes in with valid
\* parameters in a session whose counter has reached
\* MAX_DOWNLOADS_PER_SESSION is rejected before get_video_info or the
\* downloader is called: no call is ever made for it.
C13_QuotaAtBothEntries ==
    \A r \in Requests :
        (Served(r) /\ ValidInput(r)
           /\ Count(req[r].loaded) >= MAX_DOWNLOADS_PER_SESSION) =>
            req[r].calls = {}

\* A download job of download_handler: the request passed the checks and
\* the session limit.
Accepted(r) ==
    /\ Served(r) /\ req[r].entry = "sync" /\ req[r].action # "getInfo"
    /\ ValidInput(r)
    /\ Count(req[r].loaded) < MAX_DOWNLOADS_PER_SESSION

C15_CheckIgnoresRunningJobs ==
    \A r, q \in Requests :
        (Accepted(r) /\ q \in req[r].met
           /\ req[q].entry = "sync" /\ req[q].action # "getInfo") =>
            req[r].resp.error # LimitReached

\* The burst: both requests passed the check at one below the limit, both
\* jobs ran, and the session has run more jobs than the limit allows while
\* its counter shows the limit.
C15_Witness ==
    /\ \A r \in Requests :
          /\ Accepted(r) /\ req[r].pc = "done" /\ req[r].resp.success
          /\ Count(req[r].loaded) = MAX_DOWNLOADS_PER_SESSION - 1
    /\ req[1].met = {} /\ req[2].met = {1}
    /\ attempted = MAX_DOWNLOADS_PER_SESSION + 1
    /\ Count(cookie) = MAX_DOWNLOADS_PER_SESSION

\* C16: the scan goes by the prefix temp_<timestamp> alone.  The name a job
\* is about to rename starts with the job's own prefix, and when the file
\* under that name was written by another job still running, that job took
\* its timestamp in the same second.
C16_ScanByPrefixOnly ==
    \A r \in Requests :
        req[r].pc = "rename" =>
            /\ StartsWithTemp(req[r].found, req[r].timestamp)
            /\ \A f \in files :
                  (f.name = req[r].found /\ f.by # r /\ req[f.by].pc # "done") =>
                      req[f.by].timestamp = req[r].timestamp

\* The race: job r has reported success for its own title, and the file at
\* its final path is the one job q wrote and has not finished producing;
\* q, which resolved another title, is still in its download.
C16_Witness ==
    \E r, q \in Requests :
        /\ r # q
        /\ SyncSucceeded(r) \/ StreamSucceeded(r)
        /\ req[q].pc = "downloading"
        /\ new_path(req[q].title) # new_path(req[r].resolved.title)
        /\ \E f \in files :
              /\ f.name = new_path(req[r].resolved.title)
              /\ f.by = q
              /\ ~f.complete

\* Job r has its temp prefix to itself: no other job holds the same
\* timestamp, no file of another job is under the prefix, and no file that
\* r wrote has been moved from under it.
OwnPrefix(r) ==
    /\ \A q \in Requests \ {r} : req[q].timestamp # req[r].timestamp
    /\ \A f \in files : StartsWithTemp(f.name, req[r].timestamp) <=> f.by = r

\* C17: the step in which the rename of a job with a temp prefix of its own
\* succeeds changes one file: before it the job's only file is
\* temp_<timestamp>.mp3; after it no name with the prefix is left, the
\* file is at the job's final path, fully produced, and every other entry of
\* the directory is as it was.
C17_OneFileChanged ==
    [][\A r \in Requests :
          (req[r].pc = "rename" /\ OwnPrefix(r)
             /\ (req'[r].pc = "final" \/ (req'[r].pc = "done" /\ req'[r].resp.success))) =>
              LET ts == req[r].timestamp
                  dst == new_path(req[r].title)
              IN  /\ Located(files, ts) = {TempName(ts, "mp3")}
                  /\ {f \in files : f.by = r} = {Lookup(files, TempName(ts, "mp3"))}
                  /\ Located(files', ts) = {}
                  /\ {f \in files' : f.by = r} = {Lookup(files', dst)}
                  /\ Lookup(files', dst).complete
                  /\ Without(files', dst) = Without(Without(files, dst), TempName(ts, "mp3"))
      ]_vars

\* A job has returned in success beside a job with another prefix that is
\* still in its download: the directory holds the one file of the first at
\* its final path and the temp file of the second.
C17_Witness ==
    \E r, q \in Requests :
        /\ r # q
        /\ req[r].pc = "done" /\ (SyncSucceeded(r) \/ StreamSucceeded(r))
        /\ req[q].pc = "downloading" /\ req[q].timestamp = StartTime + 1
        /\ files = {Entry(new_path(req[r].resolved.title), StartTime, TRUE, TRUE, r),
                    Entry(TempName(StartTime + 1, "part"), StartTime + 1, TRUE, FALSE, q)}

\* The temp files no running job owns that are older than the age limit
StaleOrphans ==
    {f \in files : /\ f.name.kind = "temp"
                   /\ f.by \in Requests => req[f.by].pc = "done"
                   /\ f.mtime < now - MaxAge}

\* C18: a temp file that a failed job left is deleted by the sweep at some
\* time after it has grown older than the age limit.
C18_OrphansReaped == (StaleOrphans # {}) ~> (StaleOrphans = {})

\* C19: a sweep that has ended, in whatever way, has deleted every regular
\* file of its listing that was older than the age limit.
C19_SweepGoesOn ==
    reaper.pc \in {"done", "failed"} =>
        \A f \in reaper.listed :
            (f.regular /\ f.mtime < reaper.one_hour_ago) => f.name \notin Names(files)

\* The messages get_video_info raises, and what download_video makes of them
InfoErrors == {InfoUnavailable, InfoCopyright, InfoTimeout}

\* C20: a download job for which get_video_info raised has ended with the
\* error it raised (on the synchronous path as download_video passes it
\* on), the downloader was not called for it, it has created no file, and
\* the synchronous path has left the session counter as loaded.
C20_MetadataErrorAborts ==
    \A r \in Requests :
        (req[r].resolved.raised /\ req[r].action # "getInfo") =>
            /\ req[r].pc = "done"
            /\ "download" \notin req[r].calls
            /\ NoFileOf(r)
            /\ req[r].entry = "sync" =>
                  /\ req[r].resp.status = 400
                  /\ ~req[r].resp.success
                  /\ req[r].resp.error \in {download_video_error(e).text : e \in InfoErrors}
                  /\ Count(req[r].sess) = Count(req[r].loaded)
            /\ req[r].entry = "stream" =>
                  /\ Progress(req[r].events) = <<0, 10, -1>>
                  /\ Last(req[r].events).error \in {e.text : e \in InfoErrors}

C20_Witness ==
    \E r, q \in Requests :
        /\ req[r].entry = "sync" /\ req[r].action = "download" /\ req[r].resolved.raised
        /\ req[r].resp.error = "Download failed: " \o InfoTimeout.text
        /\ req[q].entry = "stream" /\ req[q].resolved.raised
        /\ Last(req[q].events).error = InfoCopyright.text
        /\ files = {}

\* C21: the session counter stays within 0..MAX_DOWNLOADS_PER_SESSION, no
\* step decreases it, and a step changes it only by adding one, which a
\* download job of download_handler does as it ends in success, having
\* loaded a counter below the limit.
C21_CounterMonotone ==
    [][/\ Count(cookie') \in 0..MAX_DOWNLOADS_PER_SESSION
       /\ Count(cookie') >= Count(cookie)
       /\ Count(cookie') # Count(cookie) =>
             /\ Count(cookie') = Count(cookie) + 1
             /\ \E r \in Requests :
                   /\ req[r].pc # "done" /\ req'[r].pc = "done"
                   /\ Accepted(r) /\ req'[r].resp.success
      ]_vars

====
